---- MODULE Spec2Model ----
(***************************************************************************)
(* The partition log of Forge: PartitionLog (storage/log.rs) over Segment  *)
(* (storage/segment.rs) over append-mode files (shared/fs.rs).             *)
(*                                                                         *)
(* Units.  A log file is a sequence of cells.  RecordBatch::encode yields  *)
(* one header cell (base_offset and batch_length, BATCH_HEADER_SIZE bytes  *)
(* in the code) followed by one cell per record; a physical position and   *)
(* current_size count cells.  The index and time index files are sequences *)
(* of entries; their byte sizes are the entry count times the entry SIZE.  *)
(* Every access to the index files appends or seeks first, so only the log *)
(* file handle carries a cursor.                                           *)
(*                                                                         *)
(* Environment.  The outcome of each I/O call is an input of the action    *)
(* that makes it: which write of an append fails, which call of            *)
(* Segment::new fails, and what the metadata of a .log path says about its *)
(* age when time retention asks.                                           *)
(*                                                                         *)
(* Widths.  TLC integers are 32 bits wide, so the code's i64 offsets and   *)
(* the i32 relative offset are scaled down: the relative offset ranges     *)
(* over I32_MIN .. I32_MAX with I32_MAX a bound of the model instead of     *)
(* 2^31 - 1, and `as i32` wraps into that range as two's complement does   *)
(* (AsI32).  Offsets are drawn from a range that includes differences that *)
(* do not fit.                                                             *)
(***************************************************************************)
EXTENDS Integers, Sequences, FiniteSets, TLC

VARIABLES
    max_segment_size,   \* PartitionLog.max_segment_size
    retention_bytes,    \* PartitionLog.retention_bytes
    retention_ms,       \* PartitionLog.retention_ms
    segments,           \* PartitionLog.segments: Vec<Segment>
    files,              \* the open or linked files: inode -> content
    dir,                \* the partition directory: set of <<ext, base_offset, inode>>
    last,               \* the last call: operation, arguments, result
    history,            \* the completed .log writes to the live files, in call order:
                        \* the file, the base_offset of the segment, the batch
    nAppends,           \* number of PartitionLog.append calls made
    nReads,             \* number of read and read_sequential calls made
    nFaults,            \* number of I/O failures injected
    removed,            \* whether a segment has been removed
    codec               \* the value in the codec: input, bytes, decoded value

vars == <<max_segment_size, retention_bytes, retention_ms, segments, files, dir,
          last, history, nAppends, nReads, nFaults, removed, codec>>

----------------------------------------------------------------------------
(* Bounds of the model. *)

MaxAppends == 2
MaxFaults == 1
MaxOffset == 1
MaxRecords == 2
MaxReads == 1
MaxAge == 2
I32_MAX == 3

(* Program constants. *)
IndexEntry_SIZE == 8
TimeIndexEntry_SIZE == 12
HeaderCells == 1

LOG_EXTENSION == "log"
INDEX_EXTENSION == "index"
TIMEINDEX_EXTENSION == "timeindex"

----------------------------------------------------------------------------
(* Integers. *)

I32_MIN == 0 - (I32_MAX + 1)

\* `x as i32`: the value modulo the size of the range, read as two's complement.
AsI32(x) ==
    LET m == (I32_MAX - I32_MIN) + 1
        r == x % m
    IN  IF r > I32_MAX THEN r - m ELSE r

FitsI32(x) == I32_MIN <= x /\ x <= I32_MAX

RECURSIVE SumSeq(_)
SumSeq(s) == IF s = <<>> THEN 0 ELSE Head(s) + SumSeq(Tail(s))

RECURSIVE Flatten(_)
Flatten(ss) == IF ss = <<>> THEN <<>> ELSE Head(ss) \o Flatten(Tail(ss))

----------------------------------------------------------------------------
(* The wire codec: protocol/types.rs, shared/byte.rs, core/domain/record.rs *)
(* and core/domain/record_batch.rs.  A buffer is a sequence of bytes        *)
(* 0 .. 255.  The value of a Varint or a Varlong is kept at its width, as   *)
(* the sequence of its two's complement bits, least significant first, so   *)
(* that the shifts of the zig-zag and of the 7-bit groups are those of the  *)
(* code; the fixed-width fields are integers.                               *)

Varint_BITS == 32
Varlong_BITS == 64
Varint_max_bytes == 5
Varlong_max_bytes == 10

Xor(a, b) == (a + b) % 2

\* 2^n for the small n used on bytes.
RECURSIVE Pow2(_)
Pow2(n) == IF n = 0 THEN 1 ELSE 2 * Pow2(n - 1)

\* A bit vector written as a function, as the sequence of its bits.
Bits(f) == SubSeq(f, 1, Len(f))

\* The sum of s[lo .. hi].
RECURSIVE SumRange(_, _, _)
SumRange(s, lo, hi) ==
    IF lo > hi THEN 0
    ELSE IF lo = hi THEN s[lo]
    ELSE SumRange(s, lo, (lo + hi) \div 2) + SumRange(s, ((lo + hi) \div 2) + 1, hi)

\* `n as iW`, and back for a value that fits a model integer.
ToBits(n, width) ==
    Bits([i \in 1 .. width |->
        IF i <= 31 THEN (n \div Pow2(i - 1)) % 2 ELSE IF n < 0 THEN 1 ELSE 0])

Unsigned(bits) ==
    SumRange([i \in 1 .. Len(bits) |-> IF bits[i] = 0 THEN 0 ELSE Pow2(i - 1)],
             1, Len(bits))

IsNegative(bits) == bits[Len(bits)] = 1

FromBits(bits) ==
    IF IsNegative(bits)
    THEN 0 - Unsigned(Bits([i \in 1 .. Len(bits) |-> 1 - bits[i]])) - 1
    ELSE Unsigned(bits)

\* value >> k and value | ((byte & 0x7F) << shift) on an unsigned of the width.
ShiftRight(value, k) ==
    Bits([i \in 1 .. Len(value) |-> IF i + k <= Len(value) THEN value[i + k] ELSE 0])

OrGroup(value, byte, shift) ==
    Bits([i \in 1 .. Len(value) |->
        IF i - 1 >= shift /\ i - 1 - shift < 7
        THEN IF value[i] = 1 THEN 1 ELSE (byte \div Pow2(i - 1 - shift)) % 2
        ELSE value[i]])

\* ((self.0 as unsigned) << 1) ^ ((self.0 >> (BITS - 1)) as unsigned)
ZigZag(n) ==
    Bits([i \in 1 .. Len(n) |-> Xor(IF i = 1 THEN 0 ELSE n[i - 1], n[Len(n)])])

\* (value >> 1) as inner ^ -((value & 1) as inner)
UnZigZag(value) ==
    Bits([i \in 1 .. Len(value) |->
        Xor(IF i < Len(value) THEN value[i + 1] ELSE 0, value[1])])

\* The emit loop of the varint encoders.
RECURSIVE EmitGroups(_)
EmitGroups(value) ==
    LET low == Unsigned(SubSeq(value, 1, 7))
    IN  IF \A i \in 8 .. Len(value) : value[i] = 0
        THEN <<low>>
        ELSE <<low + 128>> \o EmitGroups(ShiftRight(value, 7))

TooLongOneEarly(shift, max_bytes) == shift >= (max_bytes - 1) * 7

\* if shift >= ($max_bytes * 7)
TooLong(shift, max_bytes) == shift >= max_bytes * 7

\* The read loop of the varint decoders.
RECURSIVE ReadGroups(_, _, _, _, _)
ReadGroups(buf, value, shift, max_bytes, name) ==
    IF buf = <<>>
    THEN [res |-> "Err", err |-> "Not enough data for " \o name, value |-> value,
          rest |-> buf]
    ELSE LET byte == Head(buf)
             value2 == OrGroup(value, byte % 128, shift)
         IN  IF byte < 128
             THEN [res |-> "Ok", err |-> "", value |-> value2, rest |-> Tail(buf)]
             ELSE IF TooLong(shift + 7, max_bytes)
             THEN [res |-> "Err", err |-> name \o " too long", value |-> value2,
                   rest |-> Tail(buf)]
             ELSE ReadGroups(Tail(buf), value2, shift + 7, max_bytes, name)

\* The two outcomes of a decode: a value and the rest of the buffer, or an error.
Ok(value, rest) == [res |-> "Ok", err |-> "", value |-> value, rest |-> rest]
Err(err, value, rest) == [res |-> "Err", err |-> err, value |-> value, rest |-> rest]

\* Ok(Self(Self::zigzag_decode(value)))
Zigzag_decoded(r) == [r EXCEPT !.value = UnZigZag(r.value)]

\* impl_signed_varint_trait!(Varint, i32, u32, 5)
Varint_encode(n) == EmitGroups(ZigZag(n))

Varint_decode(buf) ==
    Zigzag_decoded(ReadGroups(buf, ToBits(0, Varint_BITS), 0, Varint_max_bytes, "Varint"))

\* impl_signed_varint_trait!(Varlong, i64, u64, 10)
Varlong_encode(n) == EmitGroups(ZigZag(n))

Varlong_decode(buf) ==
    Zigzag_decoded(ReadGroups(buf, ToBits(0, Varlong_BITS), 0, Varlong_max_bytes,
                              "Varlong"))

\* impl_primitive!: a fixed-width big-endian integer of size bytes.
RECURSIVE Int_encode(_, _)
Int_encode(n, size) ==
    IF size = 0 THEN <<>> ELSE Int_encode(n \div 256, size - 1) \o <<n % 256>>

RECURSIVE BigEndian(_)
BigEndian(bytes) ==
    IF bytes = <<>> THEN 0
    ELSE bytes[Len(bytes)] + 256 * BigEndian(SubSeq(bytes, 1, Len(bytes) - 1))

Int_decode(buf, size, name) ==
    IF Len(buf) < size
    THEN [res |-> "Err", err |-> "Not enough data for " \o name, value |-> 0, rest |-> buf]
    ELSE LET bytes == SubSeq(buf, 1, size)
         IN  [res |-> "Ok", err |-> "",
              value |-> IF bytes[1] >= 128
                        THEN 0 - BigEndian([i \in 1 .. size |-> 255 - bytes[i]]) - 1
                        ELSE BigEndian(bytes),
              rest |-> SubSeq(buf, size + 1, Len(buf))]

\* The u32 of the crc field: four bytes, big-endian, unsigned.
U32_decode(buf) ==
    IF Len(buf) < 4
    THEN [res |-> "Err", err |-> "Not enough data for u32", value |-> 0, rest |-> buf]
    ELSE [res |-> "Ok", err |-> "", value |-> BigEndian(SubSeq(buf, 1, 4)),
          rest |-> SubSeq(buf, 5, Len(buf))]

\* crc.encode(buf)
U32_encode(n) == Int_encode(n, 4)

\* Option<Vec<u8>>.
None == [some |-> FALSE, bytes |-> <<>>]
Some(bytes) == [some |-> TRUE, bytes |-> bytes]

\* shared/byte.rs: encode_nullable_bytes.
encode_nullable_bytes(bytes) ==
    IF bytes.some
    THEN Varint_encode(ToBits(Len(bytes.bytes), Varint_BITS)) \o bytes.bytes
    ELSE Varint_encode(ToBits(0 - 1, Varint_BITS))

ZeroIsNull(len) == IsNegative(len) \/ \A i \in 1 .. Len(len) : len[i] = 0

\* if len.0 < 0 { return Ok(None); }
IsNull(len) == IsNegative(len)

\* shared/byte.rs: decode_nullable_bytes, after its length is read.
nullable_bytes(len) ==
    IF len.res = "Err" THEN Err(len.err, None, len.rest)
    ELSE IF IsNull(len.value) THEN Ok(None, len.rest)
    ELSE IF Len(len.rest) < FromBits(len.value)
    THEN Err("Not enough data for nullable bytes", None, len.rest)
    ELSE Ok(Some(SubSeq(len.rest, 1, FromBits(len.value))),
            SubSeq(len.rest, FromBits(len.value) + 1, Len(len.rest)))

decode_nullable_bytes(buf) == nullable_bytes(Varint_decode(buf))

\* Record::encode: the headers.
RECURSIVE Headers_encode(_)
Headers_encode(headers) ==
    IF headers = <<>> THEN <<>>
    ELSE Varint_encode(ToBits(Len(Head(headers).key), Varint_BITS))
            \o Head(headers).key
            \o encode_nullable_bytes(Head(headers).value)
            \o Headers_encode(Tail(headers))

\* Record::encode.
Record_encode(record) ==
    Varint_encode(record.length)
        \o Int_encode(record.attributes, 1)
        \o Varlong_encode(record.timestamp_delta)
        \o Varint_encode(record.offset_delta)
        \o encode_nullable_bytes(record.key)
        \o encode_nullable_bytes(record.value)
        \o Varint_encode(ToBits(Len(record.headers), Varint_BITS))
        \o Headers_encode(record.headers)

\* Record::decode: one header, after its key and its value are read; a header
\* key is a String, its bytes are UTF-8.
Header_value(h_key, h_value) ==
    IF h_value.res = "Err" THEN Err(h_value.err, <<>>, h_value.rest)
    ELSE Ok([key |-> h_key, value |-> h_value.value], h_value.rest)

Header_key(h_key_len) ==
    IF h_key_len.res = "Err" THEN Err(h_key_len.err, <<>>, h_key_len.rest)
    ELSE IF IsNegative(h_key_len.value)
    THEN Err("Not enough data for Header key length", <<>>, h_key_len.rest)
    ELSE IF Len(h_key_len.rest) < FromBits(h_key_len.value)
    THEN Err("Not enough data for Header key", <<>>, h_key_len.rest)
    ELSE Header_value(SubSeq(h_key_len.rest, 1, FromBits(h_key_len.value)),
                      decode_nullable_bytes(SubSeq(h_key_len.rest,
                                                   FromBits(h_key_len.value) + 1,
                                                   Len(h_key_len.rest))))

Header_decode(buf) == Header_key(Varint_decode(buf))

\* Record::decode: for _ in 0..headers_count.0
RECURSIVE Headers_decode(_, _, _)
Headers_push(header, count, headers) ==
    IF header.res = "Err" THEN Err(header.err, headers, header.rest)
    ELSE Headers_decode(header.rest, count - 1, Append(headers, header.value))

Headers_decode(buf, count, headers) ==
    IF count <= 0 THEN Ok(headers, buf)
    ELSE Headers_push(Header_decode(buf), count, headers)

Headers_counted(headers_count) ==
    IF headers_count.res = "Err" THEN Err(headers_count.err, <<>>, headers_count.rest)
    ELSE Headers_decode(headers_count.rest, FromBits(headers_count.value), <<>>)

\* One field of a record or of a batch, by its type.
Field_decode(buf, type) ==
    CASE type = "i8" -> Int_decode(buf, 1, "i8")
      [] type = "i16" -> Int_decode(buf, 2, "i16")
      [] type = "i32" -> Int_decode(buf, 4, "i32")
      [] type = "i64" -> Int_decode(buf, 8, "i64")
      [] type = "u32" -> U32_decode(buf)
      [] type = "Varint" -> Varint_decode(buf)
      [] type = "Varlong" -> Varlong_decode(buf)
      [] type = "attributes" ->
            IF Len(buf) < 1 THEN Err("Not enough data for Record attributes", 0, buf)
            ELSE Int_decode(buf, 1, "i8")
      [] type = "nullable_bytes" -> decode_nullable_bytes(buf)
      [] type = "headers" -> Headers_counted(Varint_decode(buf))

\* Fields read one after the other, each with `?`: the first error ends the
\* read.
RECURSIVE Fields_decode(_, _, _)
Fields_push(field, types, values) ==
    IF field.res = "Err" THEN Err(field.err, values, field.rest)
    ELSE Fields_decode(field.rest, Tail(types), Append(values, field.value))

Fields_decode(buf, types, values) ==
    IF types = <<>> THEN Ok(values, buf)
    ELSE Fields_push(Field_decode(buf, Head(types)), types, values)

NoRecord ==
    [length |-> ToBits(0, Varint_BITS), attributes |-> 0,
     timestamp_delta |-> ToBits(0, Varlong_BITS), offset_delta |-> ToBits(0, Varint_BITS),
     key |-> None, value |-> None, headers |-> <<>>]

Record_fields ==
    <<"Varint", "attributes", "Varlong", "Varint", "nullable_bytes", "nullable_bytes",
      "headers">>

Record_of(fields) ==
    IF fields.res = "Err" THEN Err(fields.err, NoRecord, fields.rest)
    ELSE Ok([length |-> fields.value[1], attributes |-> fields.value[2],
             timestamp_delta |-> fields.value[3], offset_delta |-> fields.value[4],
             key |-> fields.value[5], value |-> fields.value[6],
             headers |-> fields.value[7]],
            fields.rest)

\* Record::decode.
Record_decode(buf) == Record_of(Fields_decode(buf, Record_fields, <<>>))

PARTITION_LEADER_EPOCH_SIZE == 4
MAGIC_SIZE == 1
CRC_SIZE == 4
HEADER_SIZE == PARTITION_LEADER_EPOCH_SIZE + MAGIC_SIZE + CRC_SIZE

\* crc32fast::Hasher over the payload: a checksum of the bytes, their positions
\* and their number, a u32.
Checksum(bytes) ==
    (1 + 251 * Len(bytes)
       + SumRange([i \in 1 .. Len(bytes) |-> (i * bytes[i]) % 65521], 1, Len(bytes)))
        % 65521

RECURSIVE Records_encode(_)
Records_encode(records) ==
    IF records = <<>> THEN <<>>
    ELSE Record_encode(Head(records)) \o Records_encode(Tail(records))

\* RecordBatch::encode: the bytes the CRC covers.
Payload_encode(batch) ==
    Int_encode(batch.attributes, 2)
        \o Int_encode(batch.last_offset_delta, 4)
        \o Int_encode(batch.base_timestamp, 8)
        \o Int_encode(batch.max_timestamp, 8)
        \o Int_encode(batch.producer_id, 8)
        \o Int_encode(batch.producer_epoch, 2)
        \o Int_encode(batch.base_sequence, 4)
        \o Int_encode(batch.records_count, 4)
        \o Records_encode(batch.records)

LengthOfPayloadOnly(temp_buf) == Len(temp_buf)

\* let batch_length = (HEADER_SIZE + temp_buf.len()) as i32
BackPatchedLength(temp_buf) == HEADER_SIZE + Len(temp_buf)

\* RecordBatch::encode: batch_length and crc are computed from the payload; the
\* fields of the same names are not read.
RecordBatch_encode(batch) ==
    LET temp_buf == Payload_encode(batch)
        batch_length == BackPatchedLength(temp_buf)
        crc == Checksum(temp_buf)
    IN  Int_encode(batch.base_offset, 8)
            \o Int_encode(batch_length, 4)
            \o Int_encode(batch.partition_leader_epoch, 4)
            \o Int_encode(batch.magic, 1)
            \o U32_encode(crc)
            \o temp_buf

\* RecordBatch::decode: for _ in 0..records_count
RECURSIVE Records_decode(_, _, _)
Records_push(record, count, records) ==
    IF record.res = "Err" THEN Err(record.err, records, record.rest)
    ELSE Records_decode(record.rest, count - 1, Append(records, record.value))

Records_decode(buf, count, records) ==
    IF count <= 0 THEN Ok(records, buf)
    ELSE Records_push(Record_decode(buf), count, records)

NoRecordBatch ==
    [base_offset |-> 0, batch_length |-> 0, partition_leader_epoch |-> 0, magic |-> 0,
     crc |-> 0, attributes |-> 0, last_offset_delta |-> 0, base_timestamp |-> 0,
     max_timestamp |-> 0, producer_id |-> 0, producer_epoch |-> 0, base_sequence |-> 0,
     records_count |-> 0, records |-> <<>>]

\* base_offset, batch_length, partition_leader_epoch, magic, crc
Header_fields == <<"i64", "i32", "i32", "i8", "u32">>

\* attributes, last_offset_delta, base_timestamp, max_timestamp, producer_id,
\* producer_epoch, base_sequence, records_count
Payload_fields == <<"i16", "i32", "i64", "i64", "i64", "i16", "i32", "i32">>

RecordBatch_of(header, payload, records) ==
    IF records.res = "Err" THEN Err(records.err, NoRecordBatch, records.rest)
    ELSE Ok([base_offset |-> header[1], batch_length |-> header[2],
             partition_leader_epoch |-> header[3], magic |-> header[4],
             crc |-> header[5], attributes |-> payload[1],
             last_offset_delta |-> payload[2], base_timestamp |-> payload[3],
             max_timestamp |-> payload[4], producer_id |-> payload[5],
             producer_epoch |-> payload[6], base_sequence |-> payload[7],
             records_count |-> payload[8], records |-> records.value],
            records.rest)

\* Vec::with_capacity(records_count as usize) of a negative records_count ends
\* the call without a batch.
RecordBatch_payload(header, payload) ==
    IF payload.res = "Err" THEN Err(payload.err, NoRecordBatch, payload.rest)
    ELSE IF payload.value[8] < 0 THEN Err("capacity overflow", NoRecordBatch, payload.rest)
    ELSE RecordBatch_of(header, payload.value,
                        Records_decode(payload.rest, payload.value[8], <<>>))

\* `batch_length as usize - HEADER_SIZE` of a batch_length below HEADER_SIZE
\* ends the call without a batch: by a panic, or as a length no buffer has.
RecordBatch_header(header) ==
    IF header.res = "Err" THEN Err(header.err, NoRecordBatch, header.rest)
    ELSE IF header.value[2] < 0
    THEN Err("Not enough data for record batch payload", NoRecordBatch, header.rest)
    ELSE IF header.value[2] < HEADER_SIZE
    THEN Err("attempt to subtract with overflow", NoRecordBatch, header.rest)
    ELSE IF Len(header.rest) < header.value[2] - HEADER_SIZE
    THEN Err("Not enough data for record batch payload", NoRecordBatch, header.rest)
    ELSE IF Checksum(SubSeq(header.rest, 1, header.value[2] - HEADER_SIZE))
                # header.value[5]
    THEN Err("CRC check failed", NoRecordBatch, header.rest)
    ELSE RecordBatch_payload(header.value,
                             Fields_decode(header.rest, Payload_fields, <<>>))

\* RecordBatch::decode.
RecordBatch_decode(buf) == RecordBatch_header(Fields_decode(buf, Header_fields, <<>>))

\* The result of a decode that has not been made, and a codec with no value.
NoResult == [res |-> "", err |-> "", value |-> <<>>, rest |-> <<>>]

Idle ==
    [kind |-> "none", stage |-> "idle", input |-> <<>>, bytes |-> <<>>,
     decoded |-> NoResult, again |-> <<>>, redecoded |-> NoResult]

----------------------------------------------------------------------------
(* RecordBatch: the fields the storage engine reads. *)

BatchOffsets == (0 .. MaxOffset) \cup {I32_MAX + 1}
Batches ==
    [base_offset : BatchOffsets, records_count : 1 .. MaxRecords, base_timestamp : {7}]

NoBatch == [base_offset |-> 0 - 1, records_count |-> 0, base_timestamp |-> 0]

\* RecordBatch::encode: the header cell, then one cell per record.
encode(batch) ==
    [k \in 1 .. (HeaderCells + batch.records_count) |-> [b |-> batch, k |-> k]]

EncodedSize(batch) == Len(encode(batch))

----------------------------------------------------------------------------
(* Files: shared/fs.rs over the operating system's files. *)

MaxInodes == 3 * (MaxAppends + 1)
Inodes == 1 .. MaxInodes
NoInode == 0

Lookup(d, ext, base_offset) ==
    IF \E e \in d : e[1] = ext /\ e[2] = base_offset
    THEN (CHOOSE e \in d : e[1] = ext /\ e[2] = base_offset)[3]
    ELSE NoInode

FreeInode(fs) == CHOOSE i \in Inodes : i \notin DOMAIN fs /\ \A j \in Inodes : j < i => j \in DOMAIN fs

\* An O_APPEND write ignores the cursor: the bytes land at the end of the file.
AppendModeWrite(data, pos, buf) == data \o buf

\* write_all on a handle [ino, pos] opened by open_append_file.
write_all(fs, handle, buf) ==
    LET data == AppendModeWrite(fs[handle.ino], handle.pos, buf)
    IN  [fs     |-> [fs EXCEPT ![handle.ino] = data],
         handle |-> [handle EXCEPT !.pos = Len(data)]]

\* open_append_file: create(true).append(true).open(path); the cursor starts at 0.
open_append_file(fs, d, base_offset, extension) ==
    LET found == Lookup(d, extension, base_offset)
        ino == IF found = NoInode THEN FreeInode(fs) ELSE found
    IN  [fs     |-> IF found = NoInode
                    THEN [i \in DOMAIN fs \cup {ino} |->
                            IF i = ino THEN <<>> ELSE fs[i]]
                    ELSE fs,
         dir    |-> d \cup {<<extension, base_offset, ino>>},
         handle |-> [ino |-> ino, pos |-> 0]]

\* delete_file: remove_file(path); fails when the path does not exist.
delete_file(d, base_offset, extension) ==
    {e \in d : ~(e[1] = extension /\ e[2] = base_offset)}

\* The operating system frees a file once it has no name and no open handle.
HandleInodes(segs) ==
    UNION {{segs[i].log_file.ino, segs[i].index_file.ino, segs[i].timeindex_file.ino} :
             i \in 1 .. Len(segs)}

LiveInodes(d, segs) == {e[3] : e \in d} \cup HandleInodes(segs)

Reap(fs, d, segs) == [i \in DOMAIN fs \cap LiveInodes(d, segs) |-> fs[i]]

----------------------------------------------------------------------------
(* Segment: adapters/driven/storage/segment.rs. *)

\* Segment::new.  failAt names the I/O call that fails: 0 none, 1..3 the open of
\* the log, index and time index file, 4 the metadata call.
Segment_new(fs, d, base_offset, failAt) ==
    LET o1 == open_append_file(fs, d, base_offset, LOG_EXTENSION)
        o2 == open_append_file(o1.fs, o1.dir, base_offset, INDEX_EXTENSION)
        o3 == open_append_file(o2.fs, o2.dir, base_offset, TIMEINDEX_EXTENSION)
    IN  CASE failAt = 1 -> [ok |-> FALSE, fs |-> fs, dir |-> d]
          [] failAt = 2 -> [ok |-> FALSE, fs |-> o1.fs, dir |-> o1.dir]
          [] failAt = 3 -> [ok |-> FALSE, fs |-> o2.fs, dir |-> o2.dir]
          [] failAt = 4 -> [ok |-> FALSE, fs |-> o3.fs, dir |-> o3.dir]
          [] OTHER ->
               [ok  |-> TRUE, fs |-> o3.fs, dir |-> o3.dir,
                seg |-> [base_offset    |-> base_offset,
                         log_file       |-> o1.handle,
                         index_file     |-> o2.handle,
                         timeindex_file |-> o3.handle,
                         current_size   |-> Len(o3.fs[o1.handle.ino])]]

\* Segment::append.  fail names the write that fails ("none" when all succeed).
\* A failed write leaves its file as it was, but for "torn": write_all on the
\* log fails after the header cell of the batch has reached the file.
Segment_append(seg, fs, batch, fail) ==
    LET buffer == encode(batch)
        w1 == write_all(fs, seg.log_file, buffer)
        relative_offset == AsI32(batch.base_offset - seg.base_offset)
        physical_position == seg.current_size
        w2 == write_all(w1.fs, seg.index_file,
                        <<[relative_offset |-> relative_offset,
                           physical_position |-> physical_position]>>)
        w3 == write_all(w2.fs, seg.timeindex_file,
                        <<[timestamp |-> batch.base_timestamp,
                           relative_offset |-> relative_offset]>>)
        torn == write_all(fs, seg.log_file, SubSeq(buffer, 1, HeaderCells))
    IN  CASE fail = "log" ->
               [res |-> "Err", err |-> "IO error when writing log file",
                logged |-> FALSE, seg |-> seg, fs |-> fs]
          [] fail = "torn" ->
               [res |-> "Err", err |-> "IO error when writing log file",
                logged |-> FALSE, seg |-> [seg EXCEPT !.log_file = torn.handle],
                fs |-> torn.fs]
          [] fail = "index" ->
               [res |-> "Err", err |-> "IO error when writing to index file",
                logged |-> TRUE, seg |-> [seg EXCEPT !.log_file = w1.handle], fs |-> w1.fs]
          [] fail = "timeindex" ->
               [res |-> "Err", err |-> "IO error when writing to timeindex file",
                logged |-> TRUE,
                seg |-> [seg EXCEPT !.log_file = w1.handle],
                fs |-> w2.fs]
          [] OTHER ->
               [res |-> "Ok", err |-> "", logged |-> TRUE,
                seg |-> [seg EXCEPT !.log_file = w1.handle,
                                    !.current_size = seg.current_size + Len(buffer)],
                fs |-> w3.fs]

\* The binary search loop of Segment::find_physical_position over the index
\* entries; reading entry mid is the seek to mid * SIZE and the read_exact.
\* `high = mid - 1` with mid = 0 underflows the u64: the build panics or goes on
\* to an I/O error, "Err" here.
MissIsNone(physical_position) == [kind |-> "None", err |-> "", pos |-> 0]

\* The result of the search when no entry has the relative offset: the position
\* of the nearest entry below it.
NearestPreceding(physical_position) ==
    [kind |-> "Some", err |-> "", pos |-> physical_position]

RECURSIVE IndexSearch(_, _, _, _, _)
IndexSearch(entries, relative_offset, low, high, physical_position) ==
    IF low > high
    THEN NearestPreceding(physical_position)
    ELSE LET mid == low + ((high - low) \div 2)
             entry == entries[((mid * IndexEntry_SIZE) \div IndexEntry_SIZE) + 1]
         IN  IF entry.relative_offset = relative_offset
             THEN [kind |-> "Some", err |-> "", pos |-> entry.physical_position]
             ELSE IF entry.relative_offset < relative_offset
             THEN IndexSearch(entries, relative_offset, mid + 1, high,
                              entry.physical_position)
             ELSE IF mid = 0
             THEN [kind |-> "Err", err |-> "Index search underflow", pos |-> 0]
             ELSE IndexSearch(entries, relative_offset, low, mid - 1, physical_position)

\* Segment::find_physical_position.
find_physical_position(seg, fs, offset) ==
    LET entries == fs[seg.index_file.ino]
        relative_offset == AsI32(offset - seg.base_offset)
        file_size == Len(entries) * IndexEntry_SIZE
        entries_count == file_size \div IndexEntry_SIZE
    IN  IF offset < seg.base_offset
        THEN [kind |-> "None", err |-> "", pos |-> 0]
        ELSE IF file_size = 0
        THEN [kind |-> "None", err |-> "", pos |-> 0]
        ELSE IndexSearch(entries, relative_offset, 0, entries_count - 1, 0)

NoCrcCheck(cells, batch) == TRUE

\* RecordBatch::decode accepts the bytes of a batch when the CRC computed over
\* the payload is the one stored with it: the cells are as encode wrote them.
CrcMatches(cells, batch) == cells = encode(batch)

\* Segment::read_next_batch at the log cursor pos.  The header cell frames the
\* batch; RecordBatch::decode checks the CRC of the payload, so cells that are
\* not the encoding of one batch do not decode.
read_next_batch(data, pos) ==
    IF pos >= Len(data)
    THEN [kind |-> "None", err |-> "", batch |-> NoBatch, size |-> 0, pos |-> pos]
    ELSE LET header == data[pos + 1]
             total_size == HeaderCells + header.b.records_count
         IN  IF header.k # 1
             THEN [kind |-> "Err", err |-> "Not a batch header", batch |-> NoBatch,
                   size |-> 0, pos |-> pos + HeaderCells]
             ELSE IF pos + total_size > Len(data)
             THEN [kind |-> "Err", err |-> "IO error when reading record batch payload",
                   batch |-> NoBatch, size |-> 0, pos |-> Len(data)]
             ELSE IF ~CrcMatches(SubSeq(data, pos + 1, pos + total_size), header.b)
             THEN [kind |-> "Err", err |-> "Failed to decode record batch: CRC check failed",
                   batch |-> NoBatch, size |-> 0, pos |-> pos + total_size]
             ELSE [kind |-> "Some", err |-> "", batch |-> header.b, size |-> total_size,
                   pos |-> pos + total_size]

StayAtCursor(handle, physical_position) == handle

\* self.log_file.seek(SeekFrom::Start(physical_position as u64)): the cursor of
\* the handle moves to the position, wherever it was.
seek(handle, physical_position) == [handle EXCEPT !.pos = physical_position]

\* Segment::read.
Segment_read(seg, fs, offset) ==
    LET found == find_physical_position(seg, fs, offset)
        log_file == seek(seg.log_file, found.pos)
        next == read_next_batch(fs[seg.log_file.ino], log_file.pos)
        seg2 == [seg EXCEPT !.log_file.pos = next.pos]
    IN  CASE found.kind = "Err" ->
               [res |-> "Err", err |-> found.err, out |-> <<>>, seg |-> seg]
          [] found.kind = "None" -> [res |-> "Ok", err |-> "", out |-> <<>>, seg |-> seg]
          [] next.kind = "Err" -> [res |-> "Err", err |-> next.err, out |-> <<>>, seg |-> seg2]
          [] next.kind = "None" -> [res |-> "Ok", err |-> "", out |-> <<>>, seg |-> seg2]
          [] OTHER -> [res |-> "Ok", err |-> "", out |-> <<next.batch>>, seg |-> seg2]

NoRewind(pos, size) == pos

\* The seek back over the batch that did not fit.
Rewind(pos, size) == pos - size

\* A failed read_next_batch surfaced to the caller of the loop.
SurfaceError(batches, next) ==
    [res |-> "Err", err |-> next.err, out |-> <<>>, pos |-> next.pos]

\* `Err(_) => break`: a failed read_next_batch ends the loop like the end of
\* the file does, and the batches accumulated so far are the result.
AbsorbError(batches, next) ==
    [res |-> "Ok", err |-> "", out |-> batches, pos |-> next.pos]

EndsAtOrAfter(batch, offset) == batch.base_offset + batch.records_count >= offset

\* if batch.base_offset + batch.records_count as i64 > offset
EndsAfter(batch, offset) == batch.base_offset + batch.records_count > offset

\* The loop of Segment::read_sequential from the log cursor pos.
RECURSIVE SequentialLoop(_, _, _, _, _, _)
SequentialLoop(data, pos, offset, max_bytes, bytes_read_total, batches) ==
    IF bytes_read_total >= max_bytes
    THEN [res |-> "Ok", err |-> "", out |-> batches, pos |-> pos]
    ELSE LET next == read_next_batch(data, pos)
         IN  IF next.kind = "None"
             THEN [res |-> "Ok", err |-> "", out |-> batches, pos |-> next.pos]
             ELSE IF next.kind = "Err"
             THEN AbsorbError(batches, next)
             ELSE IF bytes_read_total > 0 /\ bytes_read_total + next.size > max_bytes
             THEN [res |-> "Ok", err |-> "", out |-> batches,
                   pos |-> Rewind(next.pos, next.size)]
             ELSE SequentialLoop(data, next.pos, offset, max_bytes,
                                 bytes_read_total + next.size,
                                 IF EndsAfter(next.batch, offset)
                                 THEN Append(batches, next.batch) ELSE batches)

\* Segment::read_sequential.
Segment_read_sequential(seg, fs, offset, max_bytes) ==
    LET found == find_physical_position(seg, fs, offset)
        log_file == seek(seg.log_file, found.pos)
        loop == SequentialLoop(fs[seg.log_file.ino], log_file.pos, offset, max_bytes, 0,
                               <<>>)
    IN  CASE found.kind = "Err" ->
               [res |-> "Err", err |-> found.err, out |-> <<>>, seg |-> seg]
          [] found.kind = "None" -> [res |-> "Ok", err |-> "", out |-> <<>>, seg |-> seg]
          [] OTHER -> [res |-> loop.res, err |-> loop.err, out |-> loop.out,
                       seg |-> [seg EXCEPT !.log_file.pos = loop.pos]]

\* Segment::delete: the three unlinks, each result ignored.  failDel names the
\* extension whose unlink fails with the file in place ("none" when none does).
Segment_delete(seg, d, failDel) ==
    LET unlink(dd, extension) ==
            IF failDel = extension THEN dd ELSE delete_file(dd, seg.base_offset, extension)
    IN  unlink(unlink(unlink(d, LOG_EXTENSION), INDEX_EXTENSION), TIMEINDEX_EXTENSION)

----------------------------------------------------------------------------
(* PartitionLog: adapters/driven/storage/log.rs. *)

ForgetLast(segs, seg) == segs

\* The active segment as Segment::append left it, through last_mut().
SetLast(segs, seg) == [segs EXCEPT ![Len(segs)] = seg]

\* The size test of PartitionLog::append that starts a roll.
ExceedsThreshold(current_size, max_size) == current_size > max_size

AnyWriteRolls(current_size, max_size) == current_size > 0

\* if active_segment.current_size >= self.max_segment_size
ReachesThreshold(current_size, max_size) == current_size >= max_size

\* PartitionLog::append.  fail is the failing write of Segment::append, failNew
\* the failing call of Segment::new (0 when none fails).
PartitionLog_append(segs, fs, d, max_size, batch, fail, failNew) ==
    IF segs = <<>>
    THEN [res |-> "Err", err |-> "No active segment found", logged |-> FALSE,
          rollTried |-> FALSE, segs |-> segs, fs |-> fs, dir |-> d]
    ELSE LET a == Segment_append(segs[Len(segs)], fs, batch, fail)
             segs1 == SetLast(segs, a.seg)
             next_offset == batch.base_offset + batch.records_count
             n == Segment_new(a.fs, d, next_offset, failNew)
         IN  IF a.res = "Err"
             THEN [res |-> "Err", err |-> a.err, logged |-> a.logged,
                   rollTried |-> FALSE, segs |-> segs1, fs |-> a.fs, dir |-> d]
             ELSE IF ReachesThreshold(a.seg.current_size, max_size)
             THEN IF n.ok
                  THEN [res |-> "Ok", err |-> "", logged |-> TRUE, rollTried |-> TRUE,
                        segs |-> Append(segs1, n.seg), fs |-> n.fs, dir |-> n.dir]
                  ELSE [res |-> "Err", err |-> "IO error when creating segment",
                        logged |-> TRUE, rollTried |-> TRUE,
                        segs |-> segs1, fs |-> n.fs, dir |-> n.dir]
             ELSE [res |-> "Ok", err |-> "", logged |-> TRUE, rollTried |-> FALSE,
                   segs |-> segs1, fs |-> a.fs, dir |-> d]

IsSorted(segs) ==
    \A i, j \in 1 .. Len(segs) : i < j => segs[i].base_offset <= segs[j].base_offset

\* segments.binary_search_by_key(&offset, |s| s.base_offset), as the set of
\* results the standard library allows: on a sorted vector any matching index,
\* or else the insertion point; on an unsorted vector the result is unspecified.
\* A result is 0 for None and i for Some(i - 1), i counting from 1.
find_segment_index(segs, offset) ==
    LET matches == {i \in 1 .. Len(segs) : segs[i].base_offset = offset}
        point == Cardinality({i \in 1 .. Len(segs) : segs[i].base_offset < offset})
    IN  IF segs = <<>> THEN {0}
        ELSE IF ~IsSorted(segs) THEN 0 .. Len(segs)
        ELSE IF matches # {} THEN matches
        ELSE {point}

\* PartitionLog::read, through the segment index chosen by find_segment_index.
PartitionLog_read(segs, fs, segment_index, offset) ==
    IF segment_index = 0
    THEN [res |-> "Ok", err |-> "", out |-> <<>>, segs |-> segs]
    ELSE LET r == Segment_read(segs[segment_index], fs, offset)
         IN  [res |-> r.res, err |-> r.err, out |-> r.out,
              segs |-> [segs EXCEPT ![segment_index] = r.seg]]

\* PartitionLog::read_sequential.
PartitionLog_read_sequential(segs, fs, segment_index, offset, max_bytes) ==
    IF segment_index = 0
    THEN [res |-> "Ok", err |-> "", out |-> <<>>, segs |-> segs]
    ELSE LET r == Segment_read_sequential(segs[segment_index], fs, offset, max_bytes)
         IN  [res |-> r.res, err |-> r.err, out |-> r.out,
              segs |-> [segs EXCEPT ![segment_index] = r.seg]]

RemoveAt(segs, i) == SubSeq(segs, 1, i - 1) \o SubSeq(segs, i + 1, Len(segs))

\* The test of PartitionLog::remove_segment that keeps the last segment.
NoLastSegmentGuard(segs) == FALSE

IsLastSegment(segs) == Len(segs) = 1

\* PartitionLog::remove_segment; index counts from 0 as in the code.
remove_segment(segs, d, index, failDel) ==
    IF IsLastSegment(segs)
    THEN [res |-> "Err", err |-> "Cannot remove the last segment", segs |-> segs, dir |-> d]
    ELSE IF index >= Len(segs)
    THEN [res |-> "Err", err |-> "Segment index out of bounds", segs |-> segs, dir |-> d]
    ELSE [res |-> "Ok", err |-> "", segs |-> RemoveAt(segs, index + 1),
          dir |-> Segment_delete(segs[index + 1], d, failDel)]

TotalSize(segs) == SumSeq([i \in 1 .. Len(segs) |-> segs[i].current_size])

\* The index the retention loops remove: the oldest segment.
NewestIndex(segs) == Len(segs) - 1

OldestIndex(segs) == 0

\* The size test that ends the loop of enforce_retention_by_bytes.
WithinBytesStrict(total_size, limit) == total_size < limit

WithinBytes(total_size, limit) == total_size <= limit

\* PartitionLog::enforce_retention_by_bytes.
RECURSIVE enforce_retention_by_bytes(_, _, _)
enforce_retention_by_bytes(segs, d, limit) ==
    IF Len(segs) <= 1 THEN [res |-> "Ok", err |-> "", segs |-> segs, dir |-> d]
    ELSE IF WithinBytes(TotalSize(segs), limit)
    THEN [res |-> "Ok", err |-> "", segs |-> segs, dir |-> d]
    ELSE LET r == remove_segment(segs, d, OldestIndex(segs), "none")
         IN  IF r.res = "Err" THEN r
             ELSE enforce_retention_by_bytes(r.segs, r.dir, limit)

\* What the metadata of a .log path says when enforce_retention_by_time asks:
\* "ok" with the elapsed ms, "unreadable" (metadata fails), "nomtime" (modified
\* fails) or "future" (elapsed fails: the modified time is ahead of the clock).
Ages ==
    [kind : {"ok"}, ms : (MaxAge - 1) .. MaxAge]
        \cup [kind : {"unreadable", "nomtime", "future"}, ms : {0}]

\* The age test of enforce_retention_by_time.
ExpiredOrEqual(ms, limit_ms) == ms >= limit_ms

IsExpired(ms, limit_ms) == ms > limit_ms

\* PartitionLog::enforce_retention_by_time.  ages[k] is what the k-th metadata
\* call of the loop finds; a path that is not in the directory is unreadable.
RECURSIVE enforce_retention_by_time(_, _, _, _)
enforce_retention_by_time(segs, d, limit_ms, ages) ==
    IF Len(segs) <= 1 THEN [res |-> "Ok", err |-> "", segs |-> segs, dir |-> d]
    ELSE LET age == IF Lookup(d, LOG_EXTENSION, segs[1].base_offset) = NoInode
                    THEN [kind |-> "unreadable", ms |-> 0]
                    ELSE Head(ages)
             is_expired == age.kind = "ok" /\ IsExpired(age.ms, limit_ms)
         IN  IF age.kind = "nomtime"
             THEN [res |-> "Err", err |-> "Failed to get modified time", segs |-> segs,
                   dir |-> d]
             ELSE IF age.kind = "future"
             THEN [res |-> "Err", err |-> "Failed to get duration", segs |-> segs, dir |-> d]
             ELSE IF ~is_expired
             THEN [res |-> "Ok", err |-> "", segs |-> segs, dir |-> d]
             ELSE LET r == remove_segment(segs, d, OldestIndex(segs), "none")
                  IN  IF r.res = "Err" THEN r
                      ELSE enforce_retention_by_time(r.segs, r.dir, limit_ms, Tail(ages))

\* PartitionLog::enforce_retention.
enforce_retention(segs, d, limit_bytes, limit_ms, ages) ==
    LET b == IF limit_bytes > 0 THEN enforce_retention_by_bytes(segs, d, limit_bytes)
             ELSE [res |-> "Ok", err |-> "", segs |-> segs, dir |-> d]
        t == IF limit_ms > 0 THEN enforce_retention_by_time(b.segs, b.dir, limit_ms, ages)
             ELSE b
    IN  IF b.res = "Err" THEN b ELSE t

----------------------------------------------------------------------------
(* The state machine: one action per public operation of PartitionLog. *)

MaxSegmentSizes == {3}
RetentionBytes == {0, 3}
RetentionMs == {0, 1}
ReadOffsets == 0 .. (I32_MAX + MaxRecords)
MaxBytes == {0, 1, 4}
Fails == {"none", "log", "torn", "index", "timeindex"}
Unlinks == {"none", LOG_EXTENSION}

NoCall ==
    [op |-> "new", batch |-> NoBatch, index |-> 0, offset |-> 0, max_bytes |-> 0,
     res |-> "Ok", err |-> "", out |-> <<>>, gone |-> 0]

LiveHistory(h, fs) == SelectSeq(h, LAMBDA w : w.ino \in DOMAIN fs)

\* PartitionLog::new on a fresh directory.
LogInit ==
    LET n == Segment_new(<<>>, {}, 0, 0)
    IN  /\ max_segment_size \in MaxSegmentSizes
        /\ retention_bytes \in RetentionBytes
        /\ retention_ms \in RetentionMs
        /\ segments = <<n.seg>>
        /\ files = n.fs
        /\ dir = n.dir
        /\ last = NoCall
        /\ history = <<>>
        /\ nAppends = 0
        /\ nReads = 0
        /\ nFaults = 0
        /\ removed = FALSE

Init ==
    /\ LogInit
    /\ codec = Idle

AppendBatch(batch, fail, failNew) ==
    LET r == PartitionLog_append(segments, files, dir, max_segment_size, batch, fail,
                                 failNew)
        faults == (IF fail = "none" THEN 0 ELSE 1) + (IF failNew = 0 THEN 0 ELSE 1)
    IN  /\ nAppends < MaxAppends
        /\ nFaults + faults <= MaxFaults
        /\ failNew # 0 => r.rollTried
        /\ segments' = r.segs
        /\ files' = r.fs
        /\ dir' = r.dir
        /\ history' = IF r.logged
                      THEN Append(history, [ino |-> segments[Len(segments)].log_file.ino,
                                            base |-> segments[Len(segments)].base_offset,
                                            batch |-> batch])
                      ELSE history
        /\ last' = [NoCall EXCEPT !.op = "append", !.batch = batch, !.res = r.res,
                                  !.err = r.err]
        /\ nAppends' = nAppends + 1
        /\ nFaults' = nFaults + faults
        /\ UNCHANGED <<codec, max_segment_size, retention_bytes, retention_ms, nReads, removed>>

Read(offset, segment_index) ==
    LET r == PartitionLog_read(segments, files, segment_index, offset)
    IN  /\ nReads < MaxReads
        /\ segment_index \in find_segment_index(segments, offset)
        /\ segments' = r.segs
        /\ last' = [NoCall EXCEPT !.op = "read", !.offset = offset, !.index = segment_index,
                                  !.res = r.res, !.err = r.err, !.out = r.out]
        /\ nReads' = nReads + 1
        /\ UNCHANGED <<codec, max_segment_size, retention_bytes, retention_ms, files, dir,
                       history, nAppends, nFaults, removed>>

ReadSequential(offset, max_bytes, segment_index) ==
    LET r == PartitionLog_read_sequential(segments, files, segment_index, offset, max_bytes)
    IN  /\ nReads < MaxReads
        /\ segment_index \in find_segment_index(segments, offset)
        /\ segments' = r.segs
        /\ last' = [NoCall EXCEPT !.op = "read_sequential", !.offset = offset,
                                  !.max_bytes = max_bytes, !.index = segment_index,
                                  !.res = r.res, !.err = r.err, !.out = r.out]
        /\ nReads' = nReads + 1
        /\ UNCHANGED <<codec, max_segment_size, retention_bytes, retention_ms, files, dir,
                       history, nAppends, nFaults, removed>>

\* Unlink failures are injected on direct remove_segment calls only, and on the
\* .log file, the one whose path the time retention looks at.
RemoveSegment(index, failDel) ==
    LET r == remove_segment(segments, dir, index, failDel)
        fs == Reap(files, r.dir, r.segs)
        faults == IF failDel = "none" THEN 0 ELSE 1
    IN  /\ nFaults + faults <= MaxFaults
        /\ failDel # "none" =>
              /\ r.res = "Ok"
              /\ Lookup(dir, failDel, segments[index + 1].base_offset) # NoInode
        /\ nFaults' = nFaults + faults
        /\ segments' = r.segs
        /\ dir' = r.dir
        /\ files' = fs
        /\ history' = LiveHistory(history, fs)
        /\ removed' = (removed \/ r.res = "Ok")
        /\ last' = [NoCall EXCEPT !.op = "remove_segment", !.index = index, !.res = r.res,
                                  !.err = r.err, !.gone = Len(segments) - Len(r.segs)]
        /\ UNCHANGED <<codec, max_segment_size, retention_bytes, retention_ms, nAppends, nReads>>

\* A bit flip on the disk: cell k of a .log file, the first payload cell of a
\* batch, no longer matches the CRC the batch was written with.
DamagedCell(cell) == [cell EXCEPT !.k = 0]

CorruptLog(ino, k) ==
    /\ nFaults < MaxFaults
    /\ ino \in {segments[i].log_file.ino : i \in 1 .. Len(segments)}
    /\ k \in 1 .. Len(files[ino])
    /\ files[ino][k].k = HeaderCells + 1
    /\ files' = [files EXCEPT ![ino][k] = DamagedCell(@)]
    /\ last' = [NoCall EXCEPT !.op = "corrupt"]
    /\ nFaults' = nFaults + 1
    /\ UNCHANGED <<codec, max_segment_size, retention_bytes, retention_ms, segments, dir,
                   history, nAppends, nReads, removed>>

\* The metadata calls a retention pass can make: one per segment but the last.
AllAgeInputs ==
    IF Len(segments) > 1 THEN [1 .. (Len(segments) - 1) -> Ages] ELSE {<<>>}

AgeInputs == IF retention_ms > 0 THEN AllAgeInputs ELSE {<<>>}

EnforceRetention(ages) ==
    LET r == enforce_retention(segments, dir, retention_bytes, retention_ms, ages)
        fs == Reap(files, r.dir, r.segs)
    IN  /\ segments' = r.segs
        /\ dir' = r.dir
        /\ files' = fs
        /\ history' = LiveHistory(history, fs)
        /\ removed' = (removed \/ Len(r.segs) < Len(segments))
        /\ last' = [NoCall EXCEPT !.op = "enforce_retention", !.res = r.res, !.err = r.err,
                                  !.gone = Len(segments) - Len(r.segs)]
        /\ UNCHANGED <<codec, max_segment_size, retention_bytes, retention_ms, nAppends, nReads,
                       nFaults>>

EnforceRetentionByBytes ==
    LET r == enforce_retention_by_bytes(segments, dir, retention_bytes)
        fs == Reap(files, r.dir, r.segs)
    IN  /\ segments' = r.segs
        /\ dir' = r.dir
        /\ files' = fs
        /\ history' = LiveHistory(history, fs)
        /\ removed' = (removed \/ Len(r.segs) < Len(segments))
        /\ last' = [NoCall EXCEPT !.op = "enforce_retention_by_bytes", !.res = r.res,
                                  !.err = r.err, !.gone = Len(segments) - Len(r.segs)]
        /\ UNCHANGED <<codec, max_segment_size, retention_bytes, retention_ms, nAppends, nReads,
                       nFaults>>

EnforceRetentionByTime(ages) ==
    LET r == enforce_retention_by_time(segments, dir, retention_ms, ages)
        fs == Reap(files, r.dir, r.segs)
    IN  /\ segments' = r.segs
        /\ dir' = r.dir
        /\ files' = fs
        /\ history' = LiveHistory(history, fs)
        /\ removed' = (removed \/ Len(r.segs) < Len(segments))
        /\ last' = [NoCall EXCEPT !.op = "enforce_retention_by_time", !.res = r.res,
                                  !.err = r.err, !.gone = Len(segments) - Len(r.segs)]
        /\ UNCHANGED <<codec, max_segment_size, retention_bytes, retention_ms, nAppends, nReads,
                       nFaults>>

Next ==
    \/ \E batch \in Batches, fail \in Fails, failNew \in 0 .. 4 :
          AppendBatch(batch, fail, failNew)
    \/ \E offset \in ReadOffsets, i \in 0 .. Len(segments) : Read(offset, i)
    \/ \E offset \in ReadOffsets, max_bytes \in MaxBytes, i \in 0 .. Len(segments) :
          ReadSequential(offset, max_bytes, i)
    \/ \E index \in 0 .. Len(segments), failDel \in Unlinks : RemoveSegment(index, failDel)
    \/ \E ages \in AgeInputs : EnforceRetention(ages)
    \/ EnforceRetentionByBytes
    \/ \E ages \in AllAgeInputs : EnforceRetentionByTime(ages)
    \/ \E ino \in Inodes, k \in 1 .. (MaxAppends * (HeaderCells + MaxRecords)) :
          CorruptLog(ino, k)

Spec == Init /\ [][Next]_vars

----------------------------------------------------------------------------
(* The codec on its own: a value is drawn, encoded, decoded, and for a     *)
(* batch the decoded value is encoded and decoded once more.               *)

MaxLen == 1

\* Bit patterns of a width: one bit set, the bits below a bit set, and their
\* complements; among them 0, 1, -1, the minimum and the maximum.
OneBit(k, width) == Bits([i \in 1 .. width |-> IF i = k + 1 THEN 1 ELSE 0])
OnesBelow(k, width) == Bits([i \in 1 .. width |-> IF i <= k THEN 1 ELSE 0])
Complement(bits) == Bits([i \in 1 .. Len(bits) |-> 1 - bits[i]])
MinOf(width) == OneBit(width - 1, width)
MaxOf(width) == OnesBelow(width - 1, width)

Patterns(width) ==
    LET some == {OneBit(k, width) : k \in 0 .. (width - 1)}
                    \cup {OnesBelow(k, width) : k \in 0 .. (width - 1)}
    IN  some \cup {Complement(bits) : bits \in some}

\* Option<Vec<u8>> values: null, empty, and present up to MaxLen bytes.
RECURSIVE BytesOfLen(_)
BytesOfLen(n) == IF n = 0 THEN <<>> ELSE <<7>> \o BytesOfLen(n - 1)

Options == {None} \cup {Some(BytesOfLen(n)) : n \in 0 .. MaxLen}

HeaderLists == {<<>>} \cup {<<[key |-> <<104>>, value |-> v]>> : v \in Options}

Records ==
    {[NoRecord EXCEPT !.key = k, !.value = v, !.headers = h,
                      !.timestamp_delta = ToBits(200, Varlong_BITS)] :
        k \in Options, v \in Options, h \in HeaderLists}

\* The records of the batches: a full one, a tombstone, and one with a null
\* key, an empty value and a null header value.
BatchRecords ==
    {[NoRecord EXCEPT !.key = Some(<<7>>), !.value = Some(<<7>>),
                      !.headers = <<[key |-> <<104>>, value |-> Some(<<7>>)]>>],
     [NoRecord EXCEPT !.key = Some(<<7>>), !.offset_delta = ToBits(1, Varint_BITS)],
     [NoRecord EXCEPT !.value = Some(<<>>), !.offset_delta = ToBits(2, Varint_BITS),
                      !.headers = <<[key |-> <<104>>, value |-> None]>>]}

RecordLists == UNION {[1 .. n -> BatchRecords] : n \in 0 .. MaxRecords}

\* Batches as a caller builds them: batch_length and crc left at 0 or set to
\* other values, records_count the number of records or off by one.
RecordBatches ==
    {[NoRecordBatch EXCEPT !.base_offset = 12345, !.partition_leader_epoch = 42,
                           !.magic = 2, !.attributes = 1, !.producer_id = 0 - 1,
                           !.last_offset_delta = Len(rs) - 1,
                           !.batch_length = l, !.crc = l,
                           !.records_count = Len(rs) + d, !.records = rs] :
        rs \in RecordLists, l \in {0, 61}, d \in {0 - 1, 0, 1}}

Input(kind, value) == [Idle EXCEPT !.kind = kind, !.stage = "input", !.input = value]

CodecInit ==
    /\ LogInit
    /\ retention_bytes = 0
    /\ retention_ms = 0
    /\ \/ \E n \in Patterns(Varint_BITS) : codec = Input("Varint", n)
       \/ \E n \in Patterns(Varlong_BITS) : codec = Input("Varlong", n)
       \/ \E record \in Records : codec = Input("Record", record)
       \/ \E batch \in RecordBatches : codec = Input("RecordBatch", batch)

logVars ==
    <<max_segment_size, retention_bytes, retention_ms, segments, files, dir, last,
      history, nAppends, nReads, nFaults, removed>>

Encoded(bytes) == [codec EXCEPT !.stage = "encoded", !.bytes = bytes]
Decoded(result) == [codec EXCEPT !.stage = "decoded", !.decoded = result]

VarintEncode ==
    /\ codec.kind = "Varint" /\ codec.stage = "input"
    /\ codec' = Encoded(Varint_encode(codec.input))
    /\ UNCHANGED logVars

VarintDecode ==
    /\ codec.kind = "Varint" /\ codec.stage = "encoded"
    /\ codec' = Decoded(Varint_decode(codec.bytes))
    /\ UNCHANGED logVars

VarlongEncode ==
    /\ codec.kind = "Varlong" /\ codec.stage = "input"
    /\ codec' = Encoded(Varlong_encode(codec.input))
    /\ UNCHANGED logVars

VarlongDecode ==
    /\ codec.kind = "Varlong" /\ codec.stage = "encoded"
    /\ codec' = Decoded(Varlong_decode(codec.bytes))
    /\ UNCHANGED logVars

RecordEncode ==
    /\ codec.kind = "Record" /\ codec.stage = "input"
    /\ codec' = Encoded(Record_encode(codec.input))
    /\ UNCHANGED logVars

RecordDecode ==
    /\ codec.kind = "Record" /\ codec.stage = "encoded"
    /\ codec' = Decoded(Record_decode(codec.bytes))
    /\ UNCHANGED logVars

RecordBatchEncode ==
    /\ codec.kind = "RecordBatch" /\ codec.stage = "input"
    /\ codec' = Encoded(RecordBatch_encode(codec.input))
    /\ UNCHANGED logVars

RecordBatchDecode ==
    /\ codec.kind = "RecordBatch" /\ codec.stage = "encoded"
    /\ codec' = Decoded(RecordBatch_decode(codec.bytes))
    /\ UNCHANGED logVars

\* The decoded batch is encoded again,
RecordBatchEncodeAgain ==
    /\ codec.kind = "RecordBatch" /\ codec.stage = "decoded"
    /\ codec.decoded.res = "Ok"
    /\ codec' = [codec EXCEPT !.stage = "reencoded",
                              !.again = RecordBatch_encode(codec.decoded.value)]
    /\ UNCHANGED logVars

\* and those bytes are decoded.
RecordBatchDecodeAgain ==
    /\ codec.kind = "RecordBatch" /\ codec.stage = "reencoded"
    /\ codec' = [codec EXCEPT !.stage = "redecoded",
                              !.redecoded = RecordBatch_decode(codec.again)]
    /\ UNCHANGED logVars

CodecNext ==
    \/ VarintEncode
    \/ VarintDecode
    \/ VarlongEncode
    \/ VarlongDecode
    \/ RecordEncode
    \/ RecordDecode
    \/ RecordBatchEncode
    \/ RecordBatchDecode
    \/ RecordBatchEncodeAgain
    \/ RecordBatchDecodeAgain

CodecSpec == CodecInit /\ [][CodecNext]_vars

----------------------------------------------------------------------------
(* Definitions the properties share. *)

LogOf(seg) == files[seg.log_file.ino]

Contains(batch, o) == batch.base_offset <= o /\ o < batch.base_offset + batch.records_count

\* The appended batches have increasing, disjoint offset ranges.
IncreasingDisjoint(h) ==
    \A k \in 1 .. (Len(h) - 1) :
        h[k].batch.base_offset + h[k].batch.records_count <= h[k + 1].batch.base_offset

Suffix(segs, k) == SubSeq(segs, k + 1, Len(segs))

\* What a byte retention pass may stop at: one segment, or a total within the limit.
BytesSatisfied(segs, limit) == Len(segs) = 1 \/ TotalSize(segs) <= limit

----------------------------------------------------------------------------
(* C1..C10 *)

\* C1: after PartitionLog::new, whatever calls are made and whatever they
\* return, segments holds at least one segment and append never returns the
\* "No active segment found" error.
C1_SegmentsNonEmpty ==
    /\ Len(segments) >= 1
    /\ last.err # "No active segment found"

\* C1 witness: removals brought the log down to one segment, a further
\* remove_segment was refused, and the segment is still there.
C1_Witness ==
    /\ removed
    /\ Len(segments) = 1
    /\ last.op = "remove_segment"
    /\ last.err = "Cannot remove the last segment"

\* C2 (as claimed): whatever batches are appended, segment base offsets are
\* strictly increasing.
C2_BaseOffsetsStrictlyIncreasing ==
    \A i, j \in 1 .. Len(segments) :
        i < j => segments[i].base_offset < segments[j].base_offset

\* C3 (as claimed): after appends of batches with increasing, disjoint offset
\* ranges, no I/O failure and no removal, read(o) returns the appended batch
\* that contains o, for every o inside one of them.
C3_ReadReturnsContainingBatch ==
    (~removed /\ nFaults = 0 /\ IncreasingDisjoint(history)) =>
        \A k \in 1 .. Len(history), o \in ReadOffsets :
            Contains(history[k].batch, o) =>
                \A i \in find_segment_index(segments, o) :
                    LET r == PartitionLog_read(segments, files, i, o)
                    IN  r.res = "Ok" /\ r.out = <<history[k].batch>>

\* C4 (as claimed): each segment's current_size is the number of bytes written
\* to its .log file, also after an append that failed after the log write.
C4_CurrentSizeIsLogSize ==
    \A i \in 1 .. Len(segments) : segments[i].current_size = Len(LogOf(segments[i]))

C6_OffsetOverflowRejected ==
    [][(/\ last'.op = "append"
        /\ nFaults' = nFaults
        /\ ~FitsI32(last'.batch.base_offset - segments[Len(segments)].base_offset))
       => (last'.res = "Err" /\ files' = files /\ segments' = segments)]_vars

\* C7 (as claimed): append creates a new tail segment if and only if the active
\* segment's current_size is >= max_segment_size after the call.
C7_RollsIffOverThreshold ==
    [][last'.op = "append" =>
        (Len(segments') = Len(segments) + 1
            <=> segments'[Len(segments)].current_size >= max_segment_size)]_vars

\* C7 (amended): append pushes a new tail segment if and only if it returns Ok
\* and the segment it appended to then has current_size >= max_segment_size; it
\* pushes at most one, and a call that appended the batch wrote all of it at
\* the end of that segment's log.
C7_RollsIffOkAndOverThreshold ==
    [][last'.op = "append" =>
        LET n == Len(segments)
            pushed == Len(segments') = n + 1
        IN  /\ Len(segments') \in {n, n + 1}
            /\ pushed <=> (/\ last'.res = "Ok"
                           /\ segments'[n].current_size >= max_segment_size)
            /\ last'.res = "Ok" =>
                   /\ segments'[n].current_size
                          = segments[n].current_size + EncodedSize(last'.batch)
                   /\ files'[segments[n].log_file.ino]
                          = LogOf(segments[n]) \o encode(last'.batch)]_vars

\* C7 witness: an append brought the active segment to exactly
\* max_segment_size and a successor was pushed.
C7_Witness ==
    /\ last.op = "append"
    /\ last.res = "Ok"
    /\ Len(segments) >= 2
    /\ segments[Len(segments) - 1].current_size = max_segment_size

\* C8 (as claimed): when append rolls, the one segment it pushes is empty and
\* its base_offset is batch.base_offset + records_count.
C8_RolledSegmentIsEmpty ==
    [][(last'.op = "append" /\ Len(segments') > Len(segments)) =>
        LET new == segments'[Len(segments')]
        IN  /\ Len(segments') = Len(segments) + 1
            /\ new.current_size = 0
            /\ new.base_offset = last'.batch.base_offset + last'.batch.records_count]_vars

\* C9: a retention pass (by bytes, by time or both) removes only from the
\* head: what remains is a non-empty suffix of the segments, with the same
\* tail, each survivor unchanged.
C9_RetentionRemovesOnlyHead ==
    [][last'.op \in {"enforce_retention", "enforce_retention_by_bytes",
                     "enforce_retention_by_time"} =>
        /\ Len(segments') >= 1
        /\ segments'[Len(segments')] = segments[Len(segments)]
        /\ \E k \in 0 .. (Len(segments) - 1) : segments' = Suffix(segments, k)]_vars

\* C9 witness: enforce_retention removed a segment and the tail, which holds
\* data, is what remains.
C9_Witness ==
    /\ last.op = "enforce_retention"
    /\ removed
    /\ Len(segments) = 1
    /\ segments[1].current_size > 0

\* C10: with retention_bytes > 0, enforce_retention_by_bytes returns Ok and
\* leaves one segment or a total within retention_bytes, having removed the
\* shortest prefix of segments that achieves it.
C10_BytesRetentionShortestPrefix ==
    [][(last'.op = "enforce_retention_by_bytes" /\ retention_bytes > 0) =>
        /\ last'.res = "Ok"
        /\ BytesSatisfied(segments', retention_bytes)
        /\ \E k \in 0 .. (Len(segments) - 1) :
              /\ segments' = Suffix(segments, k)
              /\ \A j \in 0 .. (k - 1) :
                    ~BytesSatisfied(Suffix(segments, j), retention_bytes)]_vars

\* C10 witness: byte retention removed a segment and stopped with more than one
\* segment left, the total within retention_bytes.
C10_Witness ==
    /\ last.op = "enforce_retention_by_bytes"
    /\ retention_bytes > 0
    /\ removed
    /\ Len(segments) >= 2
    /\ TotalSize(segments) > 0
    /\ TotalSize(segments) <= retention_bytes

----------------------------------------------------------------------------
(* C11..C20 *)

\* Whether the .log path of segments[j] names a file when the time retention
\* loop reaches it: the removals before it have unlinked every path of the same
\* base offset.
LogPathExists(j) ==
    /\ Lookup(dir, LOG_EXTENSION, segments[j].base_offset) # NoInode
    /\ \A i \in 1 .. (j - 1) : segments[i].base_offset # segments[j].base_offset

\* What the loop learns about segments[j] under the metadata outcomes ages.
AgeOf(ages, j) ==
    IF LogPathExists(j) THEN ages[j] ELSE [kind |-> "unreadable", ms |-> 0]

\* C11 (as claimed): with retention_ms > 0 and the oldest segment's .log
\* modified time in the future, time retention removes nothing and returns Ok.
C11_FutureModifiedTimeIsNotExpired ==
    \A ages \in AllAgeInputs :
        (/\ retention_ms > 0
         /\ Len(segments) > 1
         /\ AgeOf(ages, 1).kind = "future") =>
            LET r == enforce_retention_by_time(segments, dir, retention_ms, ages)
            IN  r.res = "Ok" /\ r.segs = segments /\ r.dir = dir

\* C12: time retention removes a prefix of the segments, never the last one;
\* every segment it removes had a readable modification time strictly more than
\* retention_ms ago; it stops at the first oldest segment that is not expired
\* or whose metadata cannot be read, and in those cases (and when one segment
\* is left) it returns Ok.
C12_TimeRetentionRemovesExpiredPrefix ==
    \A ages \in AllAgeInputs :
        LET r == enforce_retention_by_time(segments, dir, retention_ms, ages)
            n == Len(segments)
        IN  \E k \in 0 .. (n - 1) :
                /\ r.segs = Suffix(segments, k)
                /\ \A j \in 1 .. k :
                      AgeOf(ages, j).kind = "ok" /\ AgeOf(ages, j).ms > retention_ms
                /\ k < n - 1 =>
                      ~(AgeOf(ages, k + 1).kind = "ok" /\ AgeOf(ages, k + 1).ms > retention_ms)
                /\ (k = n - 1 \/ AgeOf(ages, k + 1).kind \in {"ok", "unreadable"}) =>
                      r.res = "Ok"
                /\ k = 0 => r.dir = dir

\* C12 witness: a time retention call removed a segment and stopped, with
\* more than one segment left, returning Ok.
C12_Witness ==
    /\ last.op = "enforce_retention_by_time"
    /\ last.gone >= 1
    /\ last.res = "Ok"
    /\ Len(segments) >= 2
    /\ segments[1].base_offset < segments[2].base_offset

\* C13 (as claimed): remove_segment(i) fails with "Cannot remove the last
\* segment" when one segment remains and with "Segment index out of bounds"
\* when i >= len, changing neither segments nor any file; otherwise it removes
\* exactly segments[i] and the directory no longer holds any of its three files.
C13_RemoveSegmentContract ==
    [][last'.op = "remove_segment" =>
        LET n == Len(segments)
            i == last'.index
        IN  IF n = 1
            THEN /\ last'.err = "Cannot remove the last segment"
                 /\ segments' = segments /\ dir' = dir /\ files' = files
            ELSE IF i >= n
            THEN /\ last'.err = "Segment index out of bounds"
                 /\ segments' = segments /\ dir' = dir /\ files' = files
            ELSE /\ last'.res = "Ok"
                 /\ segments' = RemoveAt(segments, i + 1)
                 /\ dir' = {e \in dir : e[2] # segments[i + 1].base_offset}]_vars

\* The read operations.
IsReadCall(call) == call.op \in {"read", "read_sequential"}

\* What the segment at index i (from 1) answers to the read call.
SegmentAnswer(call, i) ==
    IF call.op = "read"
    THEN Segment_read(segments[i], files, call.offset)
    ELSE Segment_read_sequential(segments[i], files, call.offset, call.max_bytes)

\* C14 (as claimed): read and read_sequential answer from the segment with the
\* greatest base_offset <= offset, and return Ok with nothing, touching no
\* segment, when offset is below every segment's base_offset.
C14_ReadsDelegateToSegmentOfOffset ==
    [][IsReadCall(last') =>
        LET o == last'.offset
            i == last'.index
            below == {j \in 1 .. Len(segments) : segments[j].base_offset <= o}
        IN  IF below = {}
            THEN /\ last'.res = "Ok" /\ last'.out = <<>>
                 /\ segments' = segments
            ELSE /\ i \in below
                 /\ \A j \in below : segments[j].base_offset <= segments[i].base_offset
                 /\ last'.res = SegmentAnswer(last', i).res
                 /\ last'.out = SegmentAnswer(last', i).out]_vars

\* Every appended batch had a relative offset that fits in i32.
NoOverflow(h) ==
    \A k \in 1 .. Len(h) : FitsI32(h[k].batch.base_offset - h[k].base)

\* The offset is past the last offset of every appended batch.
PastTheEnd(h, o) ==
    \A k \in 1 .. Len(h) : o >= h[k].batch.base_offset + h[k].batch.records_count

\* The batches written to the log of segments[i], in call order.
WrittenTo(i) == SelectSeq(history, LAMBDA w : w.ino = segments[i].log_file.ino)

\* The domain common to both statements of C15: a read on a log built by
\* fault-free appends of increasing, disjoint batches whose relative offsets fit
\* in i32, holding at least one batch, no segment removed, of an offset past the
\* end whose own relative offset in the selected segment fits in i32.
ReadPastEnd(call) ==
    /\ call.op = "read"
    /\ ~removed /\ nFaults = 0 /\ IncreasingDisjoint(history) /\ NoOverflow(history)
    /\ history # <<>>
    /\ PastTheEnd(history, call.offset)
    /\ call.index >= 1 => FitsI32(call.offset - segments[call.index].base_offset)

RECURSIVE BatchesFrom(_, _)
BatchesFrom(data, pos) ==
    LET next == read_next_batch(data, pos)
    IN  IF next.kind = "Some" THEN <<next.batch>> \o BatchesFrom(data, next.pos) ELSE <<>>

\* The position at which the read call starts in the segment it selected.
StartOf(call) == find_physical_position(segments[call.index], files, call.offset)

\* C16 (as claimed): read_sequential returns at least one batch whenever the
\* selected segment holds, at or after the start position, a batch with
\* base_offset + records_count > offset, whatever max_bytes is; stated for logs
\* on which no I/O call has failed.
C16_SequentialReadMakesProgress ==
    [][(/\ last'.op = "read_sequential"
        /\ nFaults = 0
        /\ last'.index >= 1
        /\ StartOf(last').kind = "Some"
        /\ \E k \in DOMAIN BatchesFrom(LogOf(segments[last'.index]), StartOf(last').pos) :
              LET b == BatchesFrom(LogOf(segments[last'.index]), StartOf(last').pos)[k]
              IN  b.base_offset + b.records_count > last'.offset) =>
            (last'.res = "Ok" /\ Len(last'.out) >= 1)]_vars

\* The encoded size of the first n batches of a sequence.
SizeOfFirst(batches, n) == SumSeq([k \in 1 .. n |-> EncodedSize(batches[k])])

\* The batches among the first n whose last offset is at or after o.
WantedOfFirst(batches, n, o) ==
    SelectSeq(SubSeq(batches, 1, n), LAMBDA b : b.base_offset + b.records_count > o)

CorruptedPayloadAt(data, pos) ==
    /\ pos < Len(data)
    /\ data[pos + 1].k = 1
    /\ pos + HeaderCells + data[pos + 1].b.records_count <= Len(data)
    /\ LET b == data[pos + 1].b
           payload == (HeaderCells + 1) .. (HeaderCells + b.records_count)
       IN  /\ \A j \in payload : data[pos + j] \in {encode(b)[j], DamagedCell(encode(b)[j])}
           /\ \E j \in payload : data[pos + j] # encode(b)[j]

\* The error of a failed CRC check as Segment::read_next_batch reports it.
CrcMismatch == "Failed to decode record batch: CRC check failed"

BatchBeginsAt(seg, pos, relative_offset) ==
    /\ pos < Len(LogOf(seg))
    /\ LogOf(seg)[pos + 1].k = 1
    /\ AsI32(LogOf(seg)[pos + 1].b.base_offset - seg.base_offset) = relative_offset

\* The log from position pos on is a sequence of whole batches, each a header
\* cell followed by its own payload cells, damaged or not: no write of the log
\* stopped part-way.
RECURSIVE WholeBatches(_, _)
WholeBatches(data, pos) ==
    \/ pos = Len(data)
    \/ /\ pos < Len(data)
       /\ data[pos + 1].k = 1
       /\ pos + HeaderCells + data[pos + 1].b.records_count <= Len(data)
       /\ \A j \in (HeaderCells + 1) .. (HeaderCells + data[pos + 1].b.records_count) :
             data[pos + j].b = data[pos + 1].b /\ data[pos + j].k \in {0, j}
       /\ WholeBatches(data, pos + HeaderCells + data[pos + 1].b.records_count)

\* C20 (as claimed): in every reachable state whose logs hold whole batches
\* only, states after an append failed between the .log write and the index
\* writes and further appends followed included, each index entry's
\* physical_position is the position in the .log file at which the batch with
\* the entry's relative_offset begins.
C20_IndexEntriesPointAtTheirBatch ==
    \A i \in 1 .. Len(segments) :
        WholeBatches(LogOf(segments[i]), 0) =>
            \A n \in 1 .. Len(files[segments[i].index_file.ino]) :
                LET entry == files[segments[i].index_file.ino][n]
                IN  BatchBeginsAt(segments[i], entry.physical_position,
                                  entry.relative_offset)

----------------------------------------------------------------------------
(* The codec claims, under CodecSpec. *)

IsVarint == codec.kind = "Varint" \/ codec.kind = "Varlong"
MaxBytesOf(kind) == IF kind = "Varint" THEN Varint_max_bytes ELSE Varlong_max_bytes

\* C22: the zig-zag encoding of a Varint is at most 5 bytes and that of a
\* Varlong at most 10, and decoding the encoding succeeds, consumes it all and
\* gives the value encoded, the minimum and the maximum of the type included.
C22_VarintRoundTrip ==
    IsVarint =>
        /\ codec.stage # "input" =>
                /\ Len(codec.bytes) >= 1
                /\ Len(codec.bytes) <= MaxBytesOf(codec.kind)
        /\ codec.stage = "decoded" =>
                /\ codec.decoded.res = "Ok"
                /\ codec.decoded.value = codec.input
                /\ codec.decoded.rest = <<>>

\* C22 happens: the minimum of i64 is decoded from its 10 bytes.
C22_Witness ==
    /\ codec.kind = "Varlong"
    /\ codec.stage = "decoded"
    /\ codec.input = MinOf(Varlong_BITS)
    /\ Len(codec.bytes) = Varlong_max_bytes
    /\ codec.decoded.value = MinOf(Varlong_BITS)


\* C23: a Record that is encoded and decoded keeps, for its key, its value and
\* the value of each header, whether it is null, present and empty, or present
\* with bytes, and the bytes.
C23_RecordKeepsNullEmptyPresent ==
    (codec.kind = "Record" /\ codec.stage = "decoded") =>
        /\ codec.decoded.res = "Ok"
        /\ codec.decoded.rest = <<>>
        /\ codec.decoded.value.key = codec.input.key
        /\ codec.decoded.value.value = codec.input.value
        /\ Len(codec.decoded.value.headers) = Len(codec.input.headers)
        /\ \A i \in 1 .. Len(codec.input.headers) :
                codec.decoded.value.headers[i].value = codec.input.headers[i].value

\* C23 happens: a record with a null key, an empty value and a header of null
\* value is decoded as such.
C23_Witness ==
    /\ codec.kind = "Record"
    /\ codec.stage = "decoded"
    /\ codec.input.key = None
    /\ codec.input.value = Some(<<>>)
    /\ Len(codec.input.headers) = 1
    /\ codec.input.headers[1].value = None
    /\ codec.decoded.value.key = None
    /\ codec.decoded.value.value = Some(<<>>)
    /\ codec.decoded.value.headers[1].value = None

IsBatchDecoded ==
    /\ codec.kind = "RecordBatch"
    /\ codec.stage \in {"decoded", "reencoded", "redecoded"}

\* The bytes before the payload: base_offset, batch_length and the HEADER_SIZE
\* bytes of partition_leader_epoch, magic and crc.
PayloadStart == 8 + 4 + HEADER_SIZE

\* C21 as stated, on the batches whose records_count is the number of their
\* records: a batch that is encoded and decoded comes back equal in every
\* field, batch_length, crc, records_count and records included, and encoding
\* the decoded batch gives the same bytes.
C21_RoundTripEqualsInput ==
    (IsBatchDecoded /\ codec.input.records_count = Len(codec.input.records)) =>
        /\ codec.decoded.res = "Ok"
        /\ codec.decoded.value = codec.input
        /\ codec.stage # "decoded" => codec.again = codec.bytes

\* C21 amended: a batch whose records_count is the number of its records
\* comes back from encode and decode with every field equal except batch_length
\* and crc, which are the length and the checksum that encode computed from the
\* payload, whatever the batch held; the decoded batch encodes to the same
\* bytes and those decode to the same batch.
C21_RoundTripUpToBackPatchedFields ==
    (IsBatchDecoded /\ codec.input.records_count = Len(codec.input.records)) =>
        /\ codec.decoded.res = "Ok"
        /\ codec.decoded.rest = <<>>
        /\ codec.decoded.value =
                [codec.input EXCEPT
                    !.batch_length = Len(codec.bytes) - (8 + 4),
                    !.crc = Checksum(SubSeq(codec.bytes, PayloadStart + 1,
                                            Len(codec.bytes)))]
        /\ codec.stage # "decoded" => codec.again = codec.bytes
        /\ codec.stage = "redecoded" => codec.redecoded = codec.decoded

\* C21 happens: a batch of two records built with batch_length 0 and crc 0 is
\* decoded with the computed ones, and encoded and decoded again.
C21_Witness ==
    /\ codec.kind = "RecordBatch"
    /\ codec.stage = "redecoded"
    /\ codec.input.records_count = 2
    /\ Len(codec.input.records) = 2
    /\ codec.input.batch_length = 0
    /\ codec.input.crc = 0
    /\ codec.decoded.value.batch_length > 0
    /\ codec.decoded.value.crc # 0
    /\ codec.decoded.value.records = codec.input.records
    /\ codec.again = codec.bytes

----------------------------------------------------------------------------
(* The index files, the searches and the roll, under Spec. *)

IndexOf(seg) == files[seg.index_file.ino]
TimeIndexOf(seg) == files[seg.timeindex_file.ino]

\* Every append that wrote to the log of segments[i] completed: current_size,
\* which the last statement of Segment::append updates, is the size of the log.
AllAppendsCompleted(i) == segments[i].current_size = Len(LogOf(segments[i]))

\* The sum of the encoded sizes of the first n batches of h.
SizeBefore(h, n) == SumSeq([k \in 1 .. n |-> EncodedSize(h[k].batch)])

\* C24: after n successful appends b1..bn to a segment its .index holds n
\* entries and its .timeindex n entries; the k-th index entry is
\* (bk.base_offset - segment.base_offset, the sum of the encoded sizes of
\* b1..b(k-1)) and the k-th time entry is (bk.base_timestamp, the same
\* relative offset).
C24_IndexEntriesOfSuccessfulAppends ==
    \A i \in 1 .. Len(segments) :
        AllAppendsCompleted(i) =>
            LET h == WrittenTo(i)
            IN  /\ Len(IndexOf(segments[i])) = Len(h)
                /\ Len(TimeIndexOf(segments[i])) = Len(h)
                /\ \A k \in 1 .. Len(h) :
                      /\ IndexOf(segments[i])[k] =
                            [relative_offset |->
                                 h[k].batch.base_offset - segments[i].base_offset,
                             physical_position |-> SizeBefore(h, k - 1)]
                      /\ TimeIndexOf(segments[i])[k] =
                            [timestamp |-> h[k].batch.base_timestamp,
                             relative_offset |->
                                 h[k].batch.base_offset - segments[i].base_offset]

IsSortedByRelativeOffset(entries) ==
    \A k, l \in 1 .. Len(entries) :
        k < l => entries[k].relative_offset <= entries[l].relative_offset

\* C25: in every reachable state the entries of the .index file of every
\* segment are in ascending order of relative_offset, by the order of the
\* appends alone: stated for logs whose batches were appended in increasing
\* order of offsets, with no I/O failure.
C25_IndexSortedByAppendOrder ==
    (nFaults = 0 /\ IncreasingDisjoint(history)) =>
        \A i \in 1 .. Len(segments) : IsSortedByRelativeOffset(IndexOf(segments[i]))

IsLookup(call) == call.op \in {"read", "read_sequential"} /\ call.index # 0

\* The relative offset a lookup searches for, when it fits in i32.
TargetOf(call) == call.offset - segments[call.index].base_offset

\* The offset is in the segment, before the first batch the index has.
BelowEveryEntry(call) ==
    /\ IndexOf(segments[call.index]) # <<>>
    /\ call.offset >= segments[call.index].base_offset
    /\ FitsI32(TargetOf(call))
    /\ \A k \in 1 .. Len(IndexOf(segments[call.index])) :
          TargetOf(call) < IndexOf(segments[call.index])[k].relative_offset

\* C26: a lookup in a segment with a non-empty index, for an offset whose
\* relative offset is below that of every index entry, does not fail: the
\* search ends with physical position 0.
C26_SearchBelowEveryEntryStartsAtZero ==
    (IsLookup(last) /\ nFaults = 0 /\ BelowEveryEntry(last)) =>
        /\ StartOf(last) = [kind |-> "Some", err |-> "", pos |-> 0]
        /\ last.res = "Ok"

\* The index of the segment is empty and its log begins with a whole batch: an
\* append wrote the log and stopped before the index write.
EmptyIndexOverLog(call) ==
    /\ IndexOf(segments[call.index]) = <<>>
    /\ read_next_batch(LogOf(segments[call.index]), 0).kind = "Some"
    /\ call.offset >= segments[call.index].base_offset

\* C27: a lookup in a segment whose index is empty and whose log is not, for an
\* offset at or after the segment's base_offset, starts at position 0, and read
\* returns the first batch of the log.
C27_EmptyIndexStartsAtZero ==
    (IsLookup(last) /\ EmptyIndexOverLog(last)) =>
        /\ StartOf(last) = [kind |-> "Some", err |-> "", pos |-> 0]
        /\ last.op = "read" =>
              last.out = <<read_next_batch(LogOf(segments[last.index]), 0).batch>>

CreationFailed(call) == call.op = "append" /\ call.err = "IO error when creating segment"

SameSegment(s, t) ==
    /\ s.base_offset = t.base_offset
    /\ s.log_file.ino = t.log_file.ino
    /\ s.index_file.ino = t.index_file.ino
    /\ s.timeindex_file.ino = t.timeindex_file.ino

\* C28: when the creation of the successor fails during an append, the batch
\* stays appended to the active segment, no segment is pushed or changed
\* otherwise, and the active segment is left at or over max_segment_size; an
\* append to an active segment that is at or over max_segment_size writes to
\* that segment and takes the roll again: it pushes the successor unless the
\* creation fails again.
C28_FailedRollIsRetried ==
    [][last'.op = "append" =>
        LET n == Len(segments)
            appended ==
                /\ SameSegment(segments'[n], segments[n])
                /\ segments'[n].current_size
                      = segments[n].current_size + EncodedSize(last'.batch)
                /\ files'[segments[n].log_file.ino]
                      = LogOf(segments[n]) \o encode(last'.batch)
        IN  /\ CreationFailed(last') =>
                  /\ appended
                  /\ Len(segments') = n
                  /\ SubSeq(segments', 1, n - 1) = SubSeq(segments, 1, n - 1)
                  /\ segments'[n].current_size >= max_segment_size
            /\ (segments[n].current_size >= max_segment_size /\ last'.res = "Ok") =>
                  /\ appended
                  /\ Len(segments') = n + 1
                  /\ SubSeq(segments', 1, n - 1) = SubSeq(segments, 1, n - 1)]_vars

\* C28 happens: the segment before the tail holds two batches, the first of
\* which had already brought it to max_segment_size: the roll failed after the
\* first and was made by the append of the second.
C28_Witness ==
    /\ last.op = "append"
    /\ last.res = "Ok"
    /\ nFaults = 1
    /\ Len(segments) >= 2
    /\ Len(WrittenTo(Len(segments) - 1)) = 2
    /\ EncodedSize(WrittenTo(Len(segments) - 1)[1].batch) >= max_segment_size
    /\ LogOf(segments[Len(segments) - 1])
          = encode(WrittenTo(Len(segments) - 1)[1].batch)
                \o encode(WrittenTo(Len(segments) - 1)[2].batch)

HadSuccessor(i) ==
    i < Len(segments) \/ segments[i].current_size >= max_segment_size

\* segments[i] is still in the log after the step.
Survives(i) == \E j \in 1 .. Len(segments') : SameSegment(segments'[j], segments[i])

\* C30: a segment that has had a successor is never written again: whatever
\* call is made, while the segment is in the log its current_size and the
\* contents of its three files stay as they are.  Stated for logs without I/O
\* failure.
C30_RolledSegmentsAreNeverWritten ==
    [][nFaults' = 0 =>
        \A i \in 1 .. Len(segments) :
            (HadSuccessor(i) /\ Survives(i)) =>
                /\ \A j \in 1 .. Len(segments') :
                      SameSegment(segments'[j], segments[i]) =>
                          segments'[j].current_size = segments[i].current_size
                /\ files'[segments[i].log_file.ino] = LogOf(segments[i])
                /\ files'[segments[i].index_file.ino] = IndexOf(segments[i])
                /\ files'[segments[i].timeindex_file.ino] = TimeIndexOf(segments[i])]_vars


----------------------------------------------------------------------------
(* The cursor of the log file, the roll threshold and the segment of a     *)
(* sequential read, under Spec.                                             *)

\* The segment with the cursor of its log file at position p.
CursorAt(seg, p) == [seg EXCEPT !.log_file.pos = p]

\* What Segment::read or Segment::read_sequential returns for the call on seg.
AnswerOf(call, seg, fs) ==
    LET r == IF call.op = "read"
             THEN Segment_read(seg, fs, call.offset)
             ELSE Segment_read_sequential(seg, fs, call.offset, call.max_bytes)
    IN  <<r.res, r.err, r.out>>

C32_RolledSegmentsReachedThreshold ==
    \A i \in 1 .. (Len(segments) - 1) :
        segments[i].current_size >= max_segment_size

\* C32 happens: after two appends that rolled and the removal of a segment,
\* the log still has a segment with a successor.
C32_Witness ==
    /\ nAppends = 2
    /\ removed
    /\ Len(segments) >= 2
    /\ last.op \in {"remove_segment", "enforce_retention"}
    /\ last.gone >= 1


\* The batches of the log file of the segment the call selected, from the
\* position at which the call starts.
BatchesOfSelected(call) ==
    BatchesFrom(LogOf(segments[call.index]), StartOf(call).pos)

====
